---- MODULE Spec2Model ----
(***************************************************************************)
(* Dynamic arc-consistency engine (src/src/lib.rs).                        *)
(*                                                                         *)
(* The engine keeps, per variable, a vector of value slots; each slot is   *)
(* live (suppressed_by = None) or names the constraint that killed it.     *)
(* Constraints live in a HashMap keyed by an identifier.  new_eq / new_neq *)
(* insert a constraint and run the AC-3 worklist from it; retract_constraint*)
(* removes it, frees the slots it killed and re-runs the worklist from the *)
(* constraints touching its two variables.                                 *)
(*                                                                         *)
(* A public call is modelled as the action that enters it followed by one  *)
(* PropStep per iteration of the `while let` worklist loop and a final     *)
(* PropDone; while pc = "propagate" nothing else is enabled, so no other  *)
(* call starts before the one in progress has returned or panicked.        *)
(***************************************************************************)
EXTENDS FiniteSets, Integers, Sequences, TLC

\* ---------------------------------------------------------------- bounds
MaxVars == 3      \* at most this many add_var calls
MaxLen  == 2      \* longest vector passed to add_var
MaxVal  == 2      \* values are drawn from 1..MaxVal
MaxAdds == 3      \* at most this many new_eq/new_neq calls in a run
MaxFailures == 1  \* the caller stops after this many Err returns (and their retracts)
MaxListeners == 1 \* at most this many set_listener calls

\* Option<usize>::None for suppressed_by (identifiers are >= 0)
None == -1

Equality   == "Equality"
Inequality == "Inequality"
ConstraintKind == {Equality, Inequality}

VARIABLES
    values,        \* Engine.values: var id -> sequence of ValueState
    constraints,   \* Engine.constraints: id -> (var1, var2, kind)
    pc,            \* "idle" | "propagate" (inside propagate_from_queue) | "panicked"
    prop_q,        \* propagate_from_queue: the VecDeque prop_q
    in_queue,      \* propagate_from_queue: the HashSet in_queue
    iter_order,    \* iteration order of the HashMap `constraints` during this call
    call,          \* the public call in progress (NoCall between calls)
    result,        \* what the last completed public call returned
    mode,          \* "Consistent" | "Failed": the caller's view (set by returns)
    failure,       \* the Err the caller holds while Failed: (cid, wiped variable, explanation)
    pre_add,       \* history: `values` at the entry of the add call in progress or failed
    ids_used,      \* history: identifiers under which completed add calls stored constraints
    nadds,         \* history: number of new_eq/new_neq calls so far
    budget,        \* caller: number of new_eq/new_neq calls it makes in this run
    nfail,         \* history: number of add calls that returned Err
    phase,         \* history: "build" (adds only) | "teardown" (then retracts only) | "mixed"
    degenerate,    \* history: some new_eq/new_neq call was given var1 = var2
    last_add,      \* history: id of the add call that returned Ok, if it was the most recent call
    dup,           \* history: ids of two add calls of the same (var1, var2, kind) made back to back
    pre_retract,   \* history: `values` at the entry of the retract call in progress
    listeners,     \* Engine.listeners: var id -> sequence of callbacks
    invoked        \* history: the callback invocations made by the latest mutating call, in order

vars == <<values, constraints, pc, prop_q, in_queue, iter_order, call, result,
          mode, failure, pre_add, ids_used, nadds, budget, nfail, phase, degenerate,
          last_add, dup, pre_retract, listeners, invoked>>

\* ------------------------------------------------------------ data model
ValueState(v, s) == [value |-> v, suppressed_by |-> s]

Vars == DOMAIN values
Ids  == DOMAIN constraints

\* the vectors add_var may be given: every sequence over 1..MaxVal of length 0..MaxLen
InputVectors == {vec \in UNION {[1..n -> 1..MaxVal] : n \in 0..MaxLen} :
                     \A i, j \in 1..Len(vec) : i < j => vec[i] < vec[j]}

\* every order in which a set may be enumerated
Orders(S) == {o \in [1..Cardinality(S) -> S] : \A i, j \in 1..Cardinality(S) : o[i] = o[j] => i = j}

\* values of the live slots of `var` in `vals` (active_b of revise, as a set)
Active(vals, var) == {vals[var][i].value : i \in {j \in 1..Len(vals[var]) : vals[var][j].suppressed_by = None}}

IsLive(s) == s.suppressed_by = None

\* Engine::val
val(var) == LET live == SelectSeq(values[var], IsLive)
            IN  [i \in 1..Len(live) |-> live[i].value]

NoCall    == [op |-> "none", id |-> None, from |-> "Consistent"]
NoResult  == [kind |-> "none", var |-> None, expl |-> {}]
NoFailure == [cid |-> None, var |-> None, expl |-> {}]

\* ------------------------------------------------------------------ revise
\* mutant of has_support: `all` for `any` in the Inequality arm
has_support_all(kind, active_b, x) ==
    IF kind = Equality THEN x \in active_b
                       ELSE \A v_b \in active_b : v_b # x

has_support(kind, active_b, x) ==
    IF kind = Equality THEN x \in active_b
                       ELSE \E v_b \in active_b : v_b # x

ReviseSlot(state_a, kind, active_b, id) ==
    IF has_support(kind, active_b, state_a.value)
    THEN IF state_a.suppressed_by = id
         THEN [state_a EXCEPT !.suppressed_by = None]
         ELSE state_a
    ELSE IF state_a.suppressed_by = None
         THEN [state_a EXCEPT !.suppressed_by = id]
         ELSE state_a

\* mutant of revise: a pass that would wipe var1 leaves the store as it found it
revise_rollback(vals, var1, var2, kind, id) ==
    LET active_b == Active(vals, var2)
        domain_a == [i \in 1..Len(vals[var1]) |-> ReviseSlot(vals[var1][i], kind, active_b, id)]
        wiped    == ~ \E i \in 1..Len(domain_a) : domain_a[i].suppressed_by = None
    IN  [values  |-> IF wiped THEN vals ELSE [vals EXCEPT ![var1] = domain_a],
         changed |-> \E i \in 1..Len(domain_a) : domain_a[i] # vals[var1][i],
         wiped   |-> wiped]

\* Engine::revise on the store `vals`: the store after the pass, `changed`,
\* and `wiped` (the Err(DomainWipeout(var1)) return)
revise(vals, var1, var2, kind, id) ==
    LET active_b == Active(vals, var2)
        domain_a == [i \in 1..Len(vals[var1]) |-> ReviseSlot(vals[var1][i], kind, active_b, id)]
    IN  [values  |-> [vals EXCEPT ![var1] = domain_a],
         changed |-> \E i \in 1..Len(domain_a) : domain_a[i] # vals[var1][i],
         wiped   |-> ~ \E i \in 1..Len(domain_a) : domain_a[i].suppressed_by = None]

\* Engine::get_conflict_explanation (the Vec is built from a HashSet: a set)
get_conflict_explanation(vals, var_id) ==
    {vals[var_id][i].suppressed_by : i \in 1..Len(vals[var_id])} \ {None}

Touches(cs, id, v) == cs[id].var1 = v \/ cs[id].var2 = v

\* propagate_touching: the initial queue, in HashMap order, once per variable of `vs`
TouchingQueue(cs, order, v1, v2) ==
    SelectSeq(order, LAMBDA id : Touches(cs, id, v1)) \o
    SelectSeq(order, LAMBDA id : Touches(cs, id, v2))

SeqToSet(s) == {s[i] : i \in 1..Len(s)}

\* mutant of Enqueued: a change is not propagated to the other constraints
Enqueued_none(order, inq, c, var1, var2) == <<>>

\* propagate_from_queue lines 114-121: what is pushed to prop_q after constraint c
\* changed var1 or var2 (the second pass skips what the first pass put in in_queue)
Enqueued(order, inq, c, var1, var2) ==
    LET first  == SelectSeq(order, LAMBDA id : id # c /\ id \notin inq /\ Touches(constraints, id, var1))
        inq2   == inq \cup SeqToSet(first)
        second == SelectSeq(order, LAMBDA id : id # c /\ id \notin inq2 /\ Touches(constraints, id, var2))
    IN  first \o second

\* -------------------------------------------------------------------- Init
\* Engine::new(): no variables, no constraints, no listeners; nothing called yet
new ==
    /\ values = <<>>
    /\ constraints = <<>>
    /\ pc = "idle"
    /\ prop_q = <<>>
    /\ in_queue = {}
    /\ iter_order = <<>>
    /\ call = NoCall
    /\ result = NoResult
    /\ mode = "Consistent"
    /\ failure = NoFailure
    /\ pre_add = <<>>
    /\ ids_used = {}
    /\ nadds = 0
    /\ nfail = 0
    /\ phase = "build"
    /\ degenerate = FALSE
    /\ last_add = None
    /\ dup = {}
    /\ pre_retract = <<>>
    /\ listeners = <<>>
    /\ invoked = <<>>

Init == new /\ budget = MaxAdds

\* ----------------------------------------------------------------- add_var
add_var(vec) ==
    /\ pc = "idle"
    /\ mode = "Consistent"
    /\ nfail < MaxFailures
    /\ Cardinality(Vars) < MaxVars
    /\ LET id == Cardinality(Vars)
       IN  values' = [v \in Vars \cup {id} |->
                         IF v = id THEN [i \in 1..Len(vec) |-> ValueState(vec[i], None)]
                                   ELSE values[v]]
    /\ result' = [NoResult EXCEPT !.kind = "Ok"]
    /\ last_add' = None
    /\ dup' = {}
    /\ UNCHANGED <<constraints, pc, prop_q, in_queue, iter_order, call, mode, failure,
                   pre_add, ids_used, nadds, budget, nfail, phase, degenerate,
                   pre_retract, listeners, invoked>>

\* ---------------------------------------------------------- new_eq, new_neq
\* lines 45-47 / 54-56: allocate the id, insert, enter propagate(id)
Insert(op, var1, var2, kind) ==
    /\ pc = "idle"
    /\ mode = "Consistent"
    /\ nadds < budget
    /\ nfail < MaxFailures
    /\ var1 \in Vars /\ var2 \in Vars
    /\ LET id == Cardinality(Ids)
           cs == [c \in Ids \cup {id} |->
                     IF c = id THEN [var1 |-> var1, var2 |-> var2, kind |-> kind]
                               ELSE constraints[c]]
       IN  /\ constraints' = cs
           /\ prop_q' = <<id>>
           /\ in_queue' = {id}
           /\ call' = [op |-> op, id |-> id, from |-> mode]
           /\ dup' = IF last_add \in Ids /\ constraints[last_add] = cs[id]
                     THEN {last_add, id} ELSE {}
    /\ pc' = "propagate"
    /\ pre_add' = values
    /\ nadds' = nadds + 1
    /\ degenerate' = (degenerate \/ var1 = var2)
    /\ invoked' = <<>>
    /\ UNCHANGED <<values, iter_order, result, mode, failure, ids_used, budget, nfail, phase,
                   last_add, pre_retract, listeners>>

new_eq(var1, var2)  == Insert("new_eq", var1, var2, Equality)

new_neq(var1, var2) == Insert("new_neq", var1, var2, Inequality)

\* ------------------------------------------------------- retract_constraint
\* mutant of FreeSlots: the retracted constraint's kills are not freed
FreeSlotsNone(domain, id) == domain

\* lines 67-71: free only the slots that were killed by this exact constraint
FreeSlots(domain, id) ==
    [i \in 1..Len(domain) |->
        IF domain[i].suppressed_by = id
        THEN [domain[i] EXCEPT !.suppressed_by = None]
        ELSE domain[i]]

\* what the caller may retract: anything while Consistent; while Failed, the
\* offender or a constraint of the explanation
Legal(id) == IF mode = "Consistent" THEN nfail < MaxFailures
             ELSE id = failure.cid \/ id \in failure.expl

\* mutant of retract_constraint: an identifier that is not registered is a panic
retract_constraint_unwrap(id) ==
    /\ pc = "idle"
    /\ Legal(id)
    /\ id \notin Ids
    /\ pc' = "panicked"
    /\ result' = [kind |-> "Panic", var |-> None, expl |-> {}]
    /\ UNCHANGED <<values, constraints, prop_q, in_queue, iter_order, call, mode, failure,
                   pre_add, ids_used, nadds, budget, nfail, phase, degenerate,
                   last_add, dup, pre_retract, listeners, invoked>>

retract_constraint(id) ==
    /\ pc = "idle"
    /\ Legal(id)
    /\ IF id \in Ids
       THEN LET var1 == constraints[id].var1
                var2 == constraints[id].var2
                cs   == [c \in Ids \ {id} |-> constraints[c]]
            IN  /\ constraints' = cs
                /\ values' = [v \in Vars |-> IF v \in {var1, var2} THEN FreeSlots(values[v], id)
                                                                  ELSE values[v]]
                /\ \E order \in Orders(DOMAIN cs) :
                      /\ iter_order' = order
                      /\ prop_q' = TouchingQueue(cs, order, var1, var2)
                      /\ in_queue' = SeqToSet(TouchingQueue(cs, order, var1, var2))
                /\ pc' = "propagate"
                /\ call' = [op |-> "retract_constraint", id |-> id, from |-> mode]
                /\ phase' = IF phase = "build" THEN "teardown" ELSE phase
                /\ pre_retract' = values
                /\ dup' = IF id \in dup THEN dup ELSE {}
                /\ UNCHANGED <<result, mode>>
       ELSE /\ result' = [NoResult EXCEPT !.kind = "Ok"]
            /\ dup' = {}
            /\ UNCHANGED <<values, constraints, pc, prop_q, in_queue, iter_order, call, mode,
                           phase, pre_retract>>
    /\ last_add' = None
    /\ invoked' = <<>>
    /\ UNCHANGED <<failure, pre_add, ids_used, nadds, budget, nfail, degenerate, listeners>>

\* ---------------------------------------------------- propagate_from_queue
IsAdd == call.op \in {"new_eq", "new_neq"}

\* a revise returned Err(DomainWipeout(var_id)): `?` leaves the loop; new_eq/new_neq
\* map it to Err((id, explanation)), retract_constraint panics
Wipeout(vals, var_id) ==
    /\ values' = vals
    /\ prop_q' = <<>>
    /\ in_queue' = {}
    /\ iter_order' = <<>>
    /\ IF IsAdd
       THEN /\ pc' = "idle"
            /\ result' = [kind |-> "Err", var |-> var_id,
                          expl |-> get_conflict_explanation(vals, var_id)]
            /\ failure' = [cid |-> call.id, var |-> var_id,
                           expl |-> get_conflict_explanation(vals, var_id)]
            /\ mode' = "Failed"
            /\ nfail' = nfail + 1
            /\ phase' = "mixed"
            /\ call' = NoCall
            /\ ids_used' = ids_used \cup {call.id}
            /\ dup' = {}
            /\ UNCHANGED pre_add
       ELSE /\ pc' = "panicked"
            /\ result' = [kind |-> "Panic", var |-> var_id, expl |-> {}]
            /\ UNCHANGED <<failure, mode, nfail, phase, pre_add, call, ids_used, dup>>
    /\ UNCHANGED <<constraints, nadds, budget, degenerate, last_add, pre_retract, listeners, invoked>>

\* The iteration order of the HashMap is arbitrary but the same every time the
\* unmodified map is iterated within one call: it is drawn when first observed.
HashMapOrders == IF iter_order = <<>> THEN Orders(Ids) ELSE {iter_order}

\* one iteration of `while let Some(c) = prop_q.pop_front()`
PropStep ==
    /\ pc = "propagate"
    /\ prop_q # <<>>
    /\ LET c    == Head(prop_q)
           inq  == in_queue \ {c}
           var1 == constraints[c].var1
           var2 == constraints[c].var2
           kind == constraints[c].kind
           r1   == revise(values, var1, var2, kind, c)
           r2   == revise(r1.values, var2, var1, kind, c)
       IN  IF r1.wiped THEN Wipeout(r1.values, var1)
           ELSE IF r2.wiped THEN Wipeout(r2.values, var2)
           ELSE /\ values' = r2.values
                /\ IF r1.changed \/ r2.changed
                   THEN \E order \in HashMapOrders :
                           /\ iter_order' = order
                           /\ prop_q' = Tail(prop_q) \o Enqueued(order, inq, c, var1, var2)
                           /\ in_queue' = inq \cup SeqToSet(Enqueued(order, inq, c, var1, var2))
                   ELSE /\ prop_q' = Tail(prop_q)
                        /\ in_queue' = inq
                        /\ UNCHANGED iter_order
                /\ UNCHANGED <<constraints, pc, call, result, mode, failure,
                               pre_add, ids_used, nadds, budget, nfail, phase, degenerate,
                               last_add, dup, pre_retract, listeners, invoked>>

\* the worklist is empty: propagate_from_queue returns Ok(()), the public call returns
PropDone ==
    /\ pc = "propagate"
    /\ prop_q = <<>>
    /\ pc' = "idle"
    /\ in_queue' = {}
    /\ iter_order' = <<>>
    /\ result' = [NoResult EXCEPT !.kind = "Ok"]
    /\ mode' = "Consistent"
    /\ phase' = IF IsAdd /\ phase # "build" THEN "mixed" ELSE phase
    /\ call' = NoCall
    /\ pre_add' = <<>>
    /\ failure' = NoFailure
    /\ ids_used' = IF IsAdd THEN ids_used \cup {call.id} ELSE ids_used
    /\ last_add' = IF IsAdd THEN call.id ELSE None
    /\ dup' = IF IsAdd THEN dup ELSE {}
    /\ pre_retract' = <<>>
    /\ UNCHANGED <<values, constraints, prop_q, nadds, budget, nfail, degenerate, listeners, invoked>>

\* ------------------------------------------------------------- set_listener
\* the callbacks registered so far, over all variables
Callbacks == UNION {{listeners[v][k] : k \in 1..Len(listeners[v])} : v \in DOMAIN listeners}

\* listeners.entry(var).or_default().push(callback); the callback is named by
\* its rank among the registrations
set_listener(var) ==
    /\ pc = "idle"
    /\ mode = "Consistent"
    /\ nfail < MaxFailures
    /\ Cardinality(Callbacks) < MaxListeners
    /\ LET callback == Cardinality(Callbacks) + 1
       IN  listeners' = [v \in DOMAIN listeners \cup {var} |->
                            IF v = var
                            THEN (IF var \in DOMAIN listeners THEN listeners[var] ELSE <<>>) \o <<callback>>
                            ELSE listeners[v]]
    /\ UNCHANGED <<values, constraints, pc, prop_q, in_queue, iter_order, call, result, mode,
                   failure, pre_add, ids_used, nadds, budget, nfail, phase, degenerate,
                   last_add, dup, pre_retract, invoked>>

\* -------------------------------------------------------------------- Next
AddVar  == \E vec \in InputVectors : add_var(vec)
NewEq   == \E var1, var2 \in Vars : new_eq(var1, var2)
NewNeq  == \E var1, var2 \in Vars : new_neq(var1, var2)
Retract == \E id \in 0..(MaxAdds - 1) : retract_constraint(id)

Next == AddVar \/ NewEq \/ NewNeq \/ Retract \/ PropStep \/ PropDone

Spec == Init /\ [][Next]_vars

\* A call that has been entered runs on: the worklist loop takes its next
\* iteration while the worklist is not empty and the call returns when it is.
\* LoopRunning is ENABLED <<PropStep>>_vars (an iteration pops the head of
\* prop_q and pushes no constraint twice, so it always changes prop_q), and
\* FairPropStep is WF_vars(PropStep) written out with it.
LoopRunning == pc = "propagate" /\ prop_q # <<>>

FairPropStep == []<>(~LoopRunning) \/ []<><<PropStep>>_vars

SpecFair == Spec /\ FairPropStep /\ WF_vars(PropDone)

\* the engine with listeners: the caller registers them on the first variable
\* before it adds constraints, and then works with at most MaxVars - 1 variables
ListenerVars == {0}

SetListener ==
    \E var \in ListenerVars :
        nadds = 0 /\ Cardinality(Vars) < MaxVars /\ set_listener(var)

AddVarL ==
    /\ listeners = <<>> \/ Cardinality(Vars) < MaxVars - 1
    /\ \E vec \in InputVectors : add_var(vec)

NextL == AddVarL \/ SetListener \/ NewEq \/ NewNeq \/ Retract \/ PropStep \/ PropDone

SpecL == Init /\ [][NextL]_vars

\* the caller that inserts one constraint twice in a row: it works with at most
\* MaxVars - 1 variables and makes one add call more
InitD == new /\ budget = MaxAdds + 1

AddVarD ==
    /\ Cardinality(Vars) < MaxVars - 1
    /\ \E vec \in InputVectors : add_var(vec)

RetractD == \E id \in 0..MaxAdds : retract_constraint(id)

NextD == AddVarD \/ NewEq \/ NewNeq \/ RetractD \/ PropStep \/ PropDone

SpecD == InitD /\ [][NextD]_vars

\* ================================================================ properties
\* state predicates used by the properties below

Idle == pc = "idle"

\* the call in progress has emptied its worklist: its next step returns Ok
AtReturn == pc = "propagate" /\ prop_q = <<>>

InRetract == call.op = "retract_constraint"

\* live slots of a variable, in insertion order (what val() reports)
LiveSeq(vals, v) == SelectSeq(vals[v], IsLive)

NonEmptyIn(vals) == \A v \in DOMAIN vals : \E i \in 1..Len(vals[v]) : vals[v][i].suppressed_by = None

AllLive == \A v \in Vars : \A i \in 1..Len(values[v]) : values[v][i].suppressed_by = None

Suppressors == UNION {{values[v][i].suppressed_by : i \in 1..Len(values[v])} : v \in Vars} \ {None}

\* value x of one side of a constraint has a partner among the live values B of the other
Supported(kind, x, B) ==
    IF kind = Equality THEN \E y \in B : y = x ELSE \E y \in B : y # x

LiveValues(v) == {values[v][i].value : i \in {j \in 1..Len(values[v]) : values[v][j].suppressed_by = None}}

ArcConsistentOn(c) ==
    LET a == constraints[c].var1
        b == constraints[c].var2
        k == constraints[c].kind
    IN  /\ \A x \in LiveValues(a) : Supported(k, x, LiveValues(b))
        /\ \A y \in LiveValues(b) : Supported(k, y, LiveValues(a))

ArcConsistent == \A c \in Ids : ArcConsistentOn(c)

\* no add call has returned Err so far
NoErrSoFar == nfail = 0

\* no identifier has been handed out twice (no add call in progress)
NoIdReused == Cardinality(ids_used) = nadds

\* well-formed use: every constraint relates two different variables
WellFormed == ~degenerate

\* a retract called from Failed, the failed add having been called on an engine
\* whose variables all had live values
RetractFromFailed == InRetract /\ call.from = "Failed" /\ NonEmptyIn(pre_add)

\* the retract in progress has ended: it is about to return, or it panicked
RetractEnded == AtReturn \/ pc = "panicked"

\* ---------------------------------------------------------------------- C1
\* C1: in a run where no add call has returned Err, after every call that has
\* returned every registered constraint is arc-consistent.
C1_ArcConsistency == (Idle /\ NoErrSoFar) => ArcConsistent

\* ---------------------------------------------------------------------- C2
\* C2: an add call stores its constraint under an identifier that no earlier
\* add call has used.
C2_FreshIdentifier == IsAdd => call.id \notin ids_used

C4_RetractRestore ==
    (Idle /\ phase = "teardown") => (ArcConsistent /\ (Ids = {} => AllLive))

\* two or more constraints were added and every one has been retracted again
C4_Witness == Idle /\ phase = "teardown" /\ Ids = {} /\ nadds >= 2 /\ Vars # {}

\* ---------------------------------------------------------------------- C5
\* C5: after every call that has returned success, a slot carries suppressor
\* cid only if constraint cid is registered on the slot's variable and the
\* slot's value has no support in the active domain of cid's other variable.
Forbids(cid, v, x) ==
    /\ cid \in Ids
    /\ \/ constraints[cid].var1 = v
          /\ ~Supported(constraints[cid].kind, x, LiveValues(constraints[cid].var2))
       \/ constraints[cid].var2 = v
          /\ ~Supported(constraints[cid].kind, x, LiveValues(constraints[cid].var1))

C5_MinimalSuppression ==
    (Idle /\ NoErrSoFar /\ WellFormed) =>
        \A v \in Vars : \A i \in 1..Len(values[v]) :
            values[v][i].suppressed_by # None =>
                Forbids(values[v][i].suppressed_by, v, values[v][i].value)

\* ---------------------------------------------------------------------- C6
\* C6: after every call that has returned success, every suppressor on a slot
\* names a constraint that is in the registry.
C6_Attribution == (Idle /\ NoErrSoFar /\ WellFormed) => Suppressors \subseteq Ids

\* ---------------------------------------------------------------------- C7
\* C7: after every call that has returned success (add_var, an add returning
\* Ok, retract) every variable has a live value.
C7_NonEmptyDomains == (Idle /\ NoErrSoFar) => NonEmptyIn(values)

\* ---------------------------------------------------------------------- C8
\* C8: retracting the offender, or a constraint of the explanation, from the
\* Failed state completes without a wipeout and leaves every variable with a
\* live value and every remaining constraint arc-consistent.
C8_RecoveryFromFailed ==
    (RetractFromFailed /\ WellFormed /\ NoIdReused) =>
        /\ pc # "panicked"
        /\ AtReturn => (NonEmptyIn(values) /\ ArcConsistent)

\* ---------------------------------------------------------------------- C9
\* C9: retracting the offender of a failed add restores every variable's
\* active domain to what it was when that add was called.
C9_FailedAddRoundTrip ==
    (RetractFromFailed /\ WellFormed /\ NoIdReused /\ call.id = failure.cid /\ RetractEnded) =>
        \A v \in Vars : LiveSeq(values, v) = LiveSeq(pre_add, v)

\* --------------------------------------------------------------------- C10
\* C10: retracting any one element of the explanation leaves the wiped
\* variable with a live value when the retract ends.
C10_ExplanationUnblocks ==
    (RetractFromFailed /\ WellFormed /\ NoIdReused /\ call.id \in failure.expl /\ RetractEnded) =>
        LiveValues(failure.var) # {}

\* an add call has returned Err and the caller has not retracted yet
AfterErr == Idle /\ mode = "Failed"

\* --------------------------------------------------------------------- C11
\* C11: when an add call returns Err(cid, explanation), the explanation is
\* not empty and every identifier in it is in the registry.
C11_ExplanationRegistered ==
    AfterErr => (failure.expl # {} /\ failure.expl \subseteq Ids)

\* --------------------------------------------------------------------- C12
\* C12: when an add call returns Err(cid, explanation), cid is an element of
\* the explanation.
C12_ExplanationHasOffender == AfterErr => failure.cid \in failure.expl

\* --------------------------------------------------------------------- C13
\* C13: a failed add is not rolled back: after Err(cid, _) and until the next
\* call (a retract, which changes `result`), cid is in the registry and val()
\* reports an empty domain for some variable (the variable named by the wipeout).
C13_FailedAddNotRolledBack ==
    (AfterErr /\ result.kind = "Err") =>
        /\ failure.cid \in Ids
        /\ val(failure.var) = <<>>
        /\ \E v \in Vars : val(v) = <<>>

\* an add failed by propagation: every variable had a live value when it was
\* called and other constraints are registered
C13_Witness == AfterErr /\ result.kind = "Err" /\ NonEmptyIn(pre_add) /\ Cardinality(Ids) >= 2 /\ Suppressors # {}

\* --------------------------------------------------------------------- C14
\* the values a variable was created with
AllValues(v) == {values[v][i].value : i \in 1..Len(values[v])}

\* one round of deletions: the values of D that every registered constraint supports
Prune(D) ==
    [v \in DOMAIN D |->
        {x \in D[v] : \A c \in Ids :
            /\ constraints[c].var1 = v => Supported(constraints[c].kind, x, D[constraints[c].var2])
            /\ constraints[c].var2 = v => Supported(constraints[c].kind, x, D[constraints[c].var1])}]

\* the largest arc-consistent subdomains of D under the registered constraints;
\* it depends on the variables and on the set of constraints only
RECURSIVE Closure(_)
Closure(D) == IF Prune(D) = D THEN D ELSE Closure(Prune(D))

\* what a fresh engine with the same variables computes for the registered constraints
Recomputed == Closure([v \in Vars |-> AllValues(v)])

\* C14: after add calls only, all of which returned Ok, every variable's active
\* domain is the closure of the full domains under the set of constraints added,
\* whatever the order of the calls was.
C14_OrderIndependence ==
    (Idle /\ phase = "build") => \A v \in Vars : LiveValues(v) = Recomputed[v]

\* three constraints were added, all Ok, and some of them killed values
C14_Witness ==
    /\ Idle /\ phase = "build" /\ nadds = MaxAdds
    /\ Cardinality({constraints[c] : c \in Ids}) >= 2
    /\ Suppressors # {}

\* --------------------------------------------------------------------- C15
SameDomains(vals1, vals2) == \A v \in Vars : LiveSeq(vals1, v) = LiveSeq(vals2, v)

\* the second of two back-to-back adds of the same (var1, var2, kind) is returning Ok
SecondDuplicateOk == IsAdd /\ dup # {} /\ AtReturn

\* the retract of one of the two duplicates, called right after the second add, has ended
DuplicateRetracted == InRetract /\ dup # {} /\ RetractEnded

\* C15: when the same (var1, var2, kind) is added twice in a row, both Ok, the
\* second add leaves every active domain as the first left it, and retracting
\* either of the two right after leaves every active domain unchanged.
\* (When both adds were given the same identifier, dup holds that one identifier.)
C15_DuplicateIdempotent ==
    /\ SecondDuplicateOk => SameDomains(values, pre_add)
    /\ DuplicateRetracted => SameDomains(values, pre_retract)

\* --------------------------------------------------------------------- C16
\* C16: a retract of an identifier that is not in the registry returns without
\* failing and leaves the registry and every slot as they were; and when a
\* retract returns its identifier is not in the registry, so that retracting
\* it again is that no-op.
C16_UnknownRetractNoOp ==
    [][\A id \in 0..(MaxAdds - 1) :
          /\ (id \notin Ids /\ retract_constraint(id)) =>
                 /\ pc' = "idle"
                 /\ result'.kind = "Ok"
                 /\ constraints' = constraints
                 /\ values' = values
          /\ (InRetract /\ call.id = id /\ PropDone) => id \notin Ids']_vars

\* a state a retract of an unknown identifier starts from and ends in: an
\* identifier that was allocated is no longer registered, other constraints
\* are, and some slots are suppressed
C16_Witness ==
    /\ Idle /\ mode = "Consistent" /\ result.kind = "Ok" /\ last_add = None
    /\ ids_used \ Ids # {}
    /\ Ids # {}
    /\ Suppressors # {}

\* --------------------------------------------------------------------- C17
\* the add call in progress was given the same variable twice
DegenerateAdd == IsAdd /\ constraints[call.id].var1 = constraints[call.id].var2

\* the add call in progress got an identifier no earlier add call had used, as
\* did every add call before it
FreshAdd == IsAdd /\ call.id \notin ids_used /\ Cardinality(ids_used) = nadds - 1

\* the add call that returned Err was given the same variable twice
DegenerateErr ==
    AfterErr /\ constraints[failure.cid].var1 = constraints[failure.cid].var2

\* C17: an equality of a variable with itself returns Ok and changes no active
\* domain; an inequality of a variable with itself never returns Ok.
C17_DegenerateConstraint ==
    /\ (DegenerateAdd /\ FreshAdd /\ AtReturn) =>
           /\ constraints[call.id].kind = Equality
           /\ SameDomains(values, pre_add)
    /\ (DegenerateErr /\ NonEmptyIn(pre_add)) =>
           constraints[failure.cid].kind = Inequality

\* --------------------------------------------------------------------- C18
\* the mutating call in progress has changed the active domain of v
ChangedByCall(v) ==
    IF IsAdd THEN LiveSeq(values, v) # LiveSeq(pre_add, v)
             ELSE LiveSeq(values, v) # LiveSeq(pre_retract, v)

\* the invocations made for v by the call in progress
InvokedFor(v) == SelectSeq(invoked, LAMBDA e : e.var = v)

\* C18: when a mutating call returns having changed the active domain of a
\* variable, every callback registered for that variable has been invoked
\* exactly once by the call, in registration order.
C18_ListenersNotified ==
    AtReturn =>
        \A v \in Vars \cap DOMAIN listeners :
            ChangedByCall(v) =>
                InvokedFor(v) = [k \in 1..Len(listeners[v]) |-> [var |-> v, callback |-> listeners[v][k]]]

\* --------------------------------------------------------------------- C19
\* C19: after add calls that all returned Ok, interleaved with retracts, every
\* variable's active domain is the one a fresh engine with the same variables
\* computes for the constraints that remain registered.
C19_RepairEqualsRecomputation ==
    (Idle /\ NoErrSoFar /\ WellFormed /\ NoIdReused /\ NonEmptyIn(values)) =>
        \A v \in Vars : LiveValues(v) = Recomputed[v]

\* --------------------------------------------------------------------- C20
\* C20: the worklist loop of every add and retract call ends, by the worklist
\* becoming empty (the call returns Ok) or by a wipeout (Err, or the panic of
\* retract_constraint).
C20_Termination == []<>(pc # "propagate")

====
